---- MODULE Spec2Model ----
(***************************************************************************)
(* Track sets of rganalysis: grouping of tracks into track sets, the      *)
(* three-valued aggregate tag read, the album-gain policy, the validity   *)
(* check and the analysis operation do_gain (src/rganalysis/__init__.py), *)
(* the bs1770gain backend (src/rganalysis/backends/bs1770gain.py) and the *)
(* run of main with its dispatch of track sets (src/rganalysis.py).       *)
(*                                                                         *)
(* A filename is a path <<directory, basename>>.  The tags of a file (the *)
(* mutagen object held by an RGTrack) are a function from the tag names   *)
(* present to lists of strings.  Python values that a getter can return   *)
(* are records [py, v]: None, False, True, a list or a tuple of strings.  *)
(* An operation that can raise returns [exc, ret].                        *)
(***************************************************************************)
EXTENDS Integers, Sequences, FiniteSets, TLC

VARIABLES
    tracks,       \* the input list of RGTrack objects, by filename
    track,        \* filename -> tags in memory (RGTrack.track)
    disk,         \* filename -> tags stored in the file
    track_class,  \* "RGTrack" or "RGTrackDryRun"
    track_sets,   \* the list of RGTrackSet objects: [RGTracks, gain_type]
    fs,           \* the paths of marker-like files that exist
    last,         \* the last operation and its outcome
    \* the run of main()
    pc,                   \* where main is
    sigint,               \* the installed SIGINT handler
    music_directories,    \* the positional arguments
    jobs,                 \* the jobs option
    length_seconds,       \* filename -> len(track)
    places_past_decimal,  \* <<>> until computed, then <<digits>>
    pool,                 \* main's variable pool: "None" or "Pool"
    pool_calls,           \* the calls made on the Pool object, in order
    started,              \* the sets the handler has been called on, in order
    running,              \* the sets whose handler call is in progress
    finished,             \* the sets returned by the handler, not yet iterated
    failed,               \* the sets whose do_gain raised an Exception
    handled_track_sets,   \* the sets the loop of main has received, in order
    processed_length,     \* main's variable processed_length
    reports,              \* the percent_done values logged, in order
    exit_status,          \* "running", "0", "1" or "SIGTERM"
    log                   \* the messages that tell how the run ended

main_vars ==
    <<pc, sigint, music_directories, jobs, length_seconds,
      places_past_decimal, pool, pool_calls, started, running, finished,
      failed, handled_track_sets, processed_length, reports, exit_status, log>>

vars == <<tracks, track, disk, track_class, track_sets, fs, last, main_vars>>

\* main() is not running: the operations are called on their own.
NoRun ==
    /\ pc = "none"
    /\ sigint = "original_handler"
    /\ music_directories = <<>>
    /\ jobs = 1
    /\ length_seconds = <<>>
    /\ places_past_decimal = <<>>
    /\ pool = "None"
    /\ pool_calls = <<>>
    /\ started = <<>>
    /\ running = {}
    /\ finished = <<>>
    /\ failed = {}
    /\ handled_track_sets = <<>>
    /\ processed_length = 0
    /\ reports = <<>>
    /\ exit_status = "running"
    /\ log = {}

\* ---------------------------------------------------------------- bounds
\* Longest input list given to MakeTrackSets.
MaxTracks == 3
\* Most member tracks of an analysed track set.
MaxMembers == 2
\* Most marker-like files that exist in a directory.
MaxMarkers == 1

\* ---------------------------------------------------------- Python values
PyNone == [py |-> "None", v |-> <<>>]
PyFalse == [py |-> "False", v |-> <<>>]
PyTrue == [py |-> "True", v |-> <<>>]
PyList(s) == [py |-> "list", v |-> s]
PyTuple(s) == [py |-> "tuple", v |-> s]
PyBool(b) == IF b THEN PyTrue ELSE PyFalse

\* Python truth value: None, False and empty sequences are false.
Truthy(x) == x.py = "True" \/ (x.py \in {"list", "tuple"} /\ x.v # <<>>)
\* x and y
PyAnd(x, y) == IF Truthy(x) THEN y ELSE x

Return(x) == [exc |-> "none", ret |-> x]
Raise(e) == [exc |-> e, ret |-> PyNone]

\* d[k] = x on a dict.
Put(d, k, x) == (k :> x) @@ d
\* del d[k] on a dict that has k.
Del(d, k) == [t \in DOMAIN d \ {k} |-> d[t]]
EmptyDict == [t \in {} |-> <<>>]

\* str(value) of a measured number.
Str(x) == ToString(x)

\* Strings in code point order, as Python compares them.
Collation ==
    <<"", "-3", "-6", "/a", "/b", "1", "2", "A", "X",
      "mutagen.flac.FLAC", "mutagen.mp3.EasyMP3">>
StrRank(s) == CHOOSE i \in DOMAIN Collation : Collation[i] = s
\* a < b for tuples of strings of one length.
RECURSIVE TupleLess(_, _, _)
TupleLess(a, b, i) ==
    IF i > Len(a) THEN FALSE
    ELSE IF a[i] # b[i] THEN StrRank(a[i]) < StrRank(b[i])
    ELSE TupleLess(a, b, i + 1)

\* ------------------------------------------------------------ tag names
rg_tags ==
    {"replaygain_track_gain", "replaygain_track_peak",
     "replaygain_album_gain", "replaygain_album_peak"}
TrackGainTag == "replaygain_track_gain"
TrackPeakTag == "replaygain_track_peak"
AlbumGainTag == "replaygain_album_gain"
AlbumPeakTag == "replaygain_album_peak"

\* ------------------------------------------------------------ metadata
get_multi(d, keys, default) ==
    IF \E i \in DOMAIN keys : keys[i] \in DOMAIN d
    THEN d[keys[CHOOSE i \in DOMAIN keys :
                   /\ keys[i] \in DOMAIN d
                   /\ \A j \in 1..(i - 1) : keys[j] \notin DOMAIN d]]
    ELSE default

get_album(mf) == get_multi(mf, <<"albumsort", "album">>, <<"">>)[1]
get_albumartist(mf) ==
    get_multi(mf, <<"albumartistsort", "albumartist", "artistsort", "artist">>,
              <<"">>)[1]
get_albumid(mf) ==
    get_multi(mf, <<"album_grouping_key", "labelid", "musicbrainz_albumid">>,
              <<"">>)[1]
get_discnumber(mf) ==
    (IF "discnumber" \in DOMAIN mf THEN mf["discnumber"] ELSE <<"">>)[1]
\* The class of the mutagen object that opens the file, by the file's format.
get_full_classname(f) ==
    IF f[2] \in {"3.mp3"} THEN "mutagen.mp3.EasyMP3" ELSE "mutagen.flac.FLAC"

\* ------------------------------------------------------------- RGTrack
filename_directory(f) == f[1]

\* A key that reads the track gain tag where the album title belongs.
track_set_key_reads_gain(tr, f) ==
    <<filename_directory(f),
      get_full_classname(f),
      get_multi(tr[f], <<"replaygain_track_gain", "albumsort", "album">>, <<"">>)[1],
      get_albumartist(tr[f]),
      get_albumid(tr[f]),
      get_discnumber(tr[f])>>

track_set_key(tr, f) ==
    <<filename_directory(f),
      get_full_classname(f),
      get_album(tr[f]),
      get_albumartist(tr[f]),
      get_albumid(tr[f]),
      get_discnumber(tr[f])>>

\* The fget of RGTrack.gain and RGTrack.peak.
RGTrack_get(tags, tag) ==
    IF tag \in DOMAIN tags THEN PyList(tags[tag]) ELSE PyNone
\* The fset: the tag store keeps the string as a one-element list.
RGTrack_set(tags, tag, value) == Put(tags, tag, <<Str(value)>>)
\* The fdel.
RGTrack_del(tags, tag) == IF tag \in DOMAIN tags THEN Del(tags, tag) ELSE tags

RGTrack_has_valid_rgdata(tags) ==
    PyAnd(RGTrack_get(tags, TrackGainTag), RGTrack_get(tags, TrackPeakTag))

\* ---------------------------------------------------------- RGTrackSet
\* RGTracks is the dict of the set, kept as its filenames in insertion order.
Range(s) == {s[i] : i \in DOMAIN s}
Members(ts) == Range(ts.RGTracks)
track_gain_signal_filenames == <<"TRACKGAIN", ".TRACKGAIN", "_TRACKGAIN">>

\* The filenames of a list of tracks, each once, in the order of first use.
RECURSIVE DictKeys(_, _, _)
DictKeys(list, i, acc) ==
    IF i > Len(list) THEN acc
    ELSE DictKeys(list, i + 1,
                  IF list[i] \in Range(acc) THEN acc ELSE Append(acc, list[i]))

\* RGTrackSet(tracks, gain_type)
RGTrackSet(tr, list, gain_type) ==
    LET RGTracks == DictKeys(list, 1, <<>>)
        keys == {track_set_key(tr, f) : f \in Range(RGTracks)}
    IN  IF Len(RGTracks) < 1 THEN Raise("ValueError")
        ELSE IF Cardinality(keys) # 1 THEN Raise("ValueError")
        ELSE Return([RGTracks |-> RGTracks, gain_type |-> gain_type])

RGTrackSet_track_set_key(tr, ts) == track_set_key(tr, ts.RGTracks[1])
RGTrackSet_directory(ts) == filename_directory(ts.RGTracks[1])
filenames(ts) == Members(ts)

is_multitrack_album(tr, ts) ==
    IF \/ Len(ts.RGTracks) <= 1
       \/ SubSeq(RGTrackSet_track_set_key(tr, ts), 1, 1) = <<"", "">>
    THEN FALSE
    ELSE TRUE

exists(path) == path \in fs
join(dir, name) == <<dir, name>>

\* A policy that knows only the first marker name.
want_album_gain_first_marker(tr, ts) ==
    IF is_multitrack_album(tr, ts)
    THEN IF ts.gain_type = "album" THEN Return(PyTrue)
         ELSE IF ts.gain_type = "track" THEN Return(PyFalse)
         ELSE IF ts.gain_type = "auto"
         THEN Return(PyBool(~ exists(join(RGTrackSet_directory(ts),
                                          track_gain_signal_filenames[1]))))
         ELSE Raise("TypeError")
    ELSE Return(PyFalse)

want_album_gain(tr, ts) ==
    IF is_multitrack_album(tr, ts)
    THEN IF ts.gain_type = "album" THEN Return(PyTrue)
         ELSE IF ts.gain_type = "track" THEN Return(PyFalse)
         ELSE IF ts.gain_type = "auto"
         THEN Return(PyBool(~ \E i \in DOMAIN track_gain_signal_filenames :
                 exists(join(RGTrackSet_directory(ts),
                             track_gain_signal_filenames[i]))))
         ELSE Raise("TypeError")
    ELSE Return(PyFalse)

\* A read that reports disagreement as None.
_get_tag_two_valued(tr, ts, tag) ==
    IF \E f \in Members(ts) : tag \notin DOMAIN tr[f]
    THEN PyNone
    ELSE LET tags == {tr[f][tag] : f \in Members(ts)}
         IN  IF Cardinality(tags) = 1 THEN PyTuple(CHOOSE x \in tags : TRUE)
             ELSE PyNone

_get_tag(tr, ts, tag) ==
    IF \E f \in Members(ts) : tag \notin DOMAIN tr[f]
    THEN PyNone
    ELSE LET tags == {tr[f][tag] : f \in Members(ts)}
         IN  IF Cardinality(tags) = 1 THEN PyTuple(CHOOSE x \in tags : TRUE)
             ELSE IF Cardinality(tags) > 1 THEN PyFalse
             ELSE PyNone

\* for t in self.RGTracks.values(): t.track[tag] = str(value)
RECURSIVE SetEach(_, _, _, _, _)
SetEach(tr, order, i, tag, value) ==
    IF i > Len(order) THEN tr
    ELSE SetEach([tr EXCEPT ![order[i]] = Put(@, tag, <<Str(value)>>)],
                 order, i + 1, tag, value)

\* A write that reaches the first track of the set only.
_set_tag_first_only(tr, ts, tag, value) ==
    SetEach(tr, SubSeq(ts.RGTracks, 1, 1), 1, tag, value)

_set_tag(tr, ts, tag, value) == SetEach(tr, ts.RGTracks, 1, tag, value)

_del_tag(tr, ts, tag) ==
    [f \in DOMAIN tr |->
        IF f \in Members(ts) /\ tag \in DOMAIN tr[f] THEN Del(tr[f], tag)
        ELSE tr[f]]

RGTrackSet_gain(tr, ts) == _get_tag(tr, ts, AlbumGainTag)
RGTrackSet_peak(tr, ts) == _get_tag(tr, ts, AlbumPeakTag)

\* A check that accepts album tags on a set that should have none.
has_valid_rgdata_keeps_stale(tr, ts) ==
    IF \E f \in Members(ts) : ~Truthy(RGTrack_has_valid_rgdata(tr[f]))
    THEN Return(PyFalse)
    ELSE LET want == want_album_gain(tr, ts)
             gain == RGTrackSet_gain(tr, ts)
             peak == RGTrackSet_peak(tr, ts)
         IN  IF want.exc # "none" THEN want
             ELSE IF Truthy(want.ret)
             THEN Return(PyBool(Truthy(PyAnd(gain, peak))))
             ELSE Return(PyTrue)

has_valid_rgdata(tr, ts) ==
    IF \E f \in Members(ts) : ~Truthy(RGTrack_has_valid_rgdata(tr[f]))
    THEN Return(PyFalse)
    ELSE LET want == want_album_gain(tr, ts)
             gain == RGTrackSet_gain(tr, ts)
             peak == RGTrackSet_peak(tr, ts)
         IN  IF want.exc # "none" THEN want
             ELSE IF Truthy(want.ret)
             THEN IF Truthy(PyAnd(gain, peak)) THEN Return(PyTrue)
                  ELSE IF gain = PyNone \/ peak = PyNone THEN Return(PyFalse)
                  ELSE Return(PyFalse)
             ELSE IF gain # PyNone \/ peak # PyNone THEN Return(PyFalse)
                  ELSE Return(PyTrue)

\* The keys in the order the dict gives them, here the greatest first.
RECURSIVE sorted_not(_)
sorted_not(S) ==
    IF S = {} THEN <<>>
    ELSE LET greatest == CHOOSE k \in S : \A o \in S \ {k} : TupleLess(o, k, 1)
         IN  <<greatest>> \o sorted_not(S \ {greatest})

\* sorted(keys): ascending, by repeated choice of the least key.
RECURSIVE sorted(_)
sorted(S) ==
    IF S = {} THEN <<>>
    ELSE LET least == CHOOSE k \in S : \A o \in S \ {k} : TupleLess(k, o, 1)
         IN  <<least>> \o sorted(S \ {least})

\* The dict track_sets of MakeTrackSets after the loop over list[i..].
RECURSIVE GroupByKey(_, _, _, _)
GroupByKey(tr, list, i, acc) ==
    IF i > Len(list) THEN acc
    ELSE LET k == track_set_key(tr, list[i])
         IN  GroupByKey(tr, list, i + 1,
                 IF k \in DOMAIN acc THEN [acc EXCEPT ![k] = Append(@, list[i])]
                 ELSE Put(acc, k, <<list[i]>>))

\* RGTrackSet.MakeTrackSets(tracks): the list of sets, or the constructor's error.
MakeTrackSets(tr, list) ==
    LET groups == GroupByKey(tr, list, 1, EmptyDict)
        order == sorted(DOMAIN groups)
        made == [i \in DOMAIN order |-> RGTrackSet(tr, groups[order[i]], "auto")]
    IN  IF \E i \in DOMAIN made : made[i].exc # "none"
        THEN Raise("ValueError")
        ELSE Return([i \in DOMAIN made |-> made[i].ret])

\* ------------------------------------------------------------- inputs
\* The files a run can be given.
Files ==
    {<<"/a", "1.flac">>, <<"/a", "2.flac">>, <<"/a", "3.mp3">>, <<"/b", "1.flac">>}
\* The album tags a file can carry.
MetaChoices == {EmptyDict, [t \in {"album"} |-> <<"X">>]}
\* The modes a set can be constructed with; the last is no mode.
GainTypes == {"album", "track", "auto", "bogus"}
\* The (gain, peak) pairs a measurement can give.
Measurements == {<<-6, 1>>, <<-3, 2>>}

\* The values a caller of the tag setters writes.
WrittenValues == {-6}

\* The lists of at most n distinct elements of S.
RECURSIVE ListsOf(_, _)
ListsOf(S, n) ==
    IF n = 0 THEN {<<>>}
    ELSE LET shorter == ListsOf(S, n - 1)
         IN  shorter \cup
             UNION {{Append(l, x) : x \in S \ Range(l)} : l \in shorter}

\* ------------------------------------------------------------ grouping
InitGroup ==
    /\ tracks \in ListsOf(Files, MaxTracks)
    /\ track \in [Range(tracks) -> MetaChoices]
    /\ disk = track
    /\ track_class = "RGTrack"
    /\ track_sets = <<>>
    /\ fs = {}
    /\ last = [op |-> "start"]
    /\ NoRun

\* track_sets = RGTrackSet.MakeTrackSets(tracks)
CallMakeTrackSets ==
    /\ last.op \in {"start", "RGTrackSet"}
    /\ LET out == MakeTrackSets(track, tracks)
       IN  /\ track_sets' = IF out.exc = "none" THEN out.ret ELSE track_sets
           /\ last' = [op |-> "MakeTrackSets", exc |-> out.exc]
    /\ UNCHANGED <<tracks, track, disk, track_class, fs>>
    /\ UNCHANGED main_vars

\* RGTrackSet(list, gain_type) on some of the input tracks, before grouping.
CallRGTrackSet ==
    /\ last.op \in {"start", "RGTrackSet"}
    /\ \E list \in ListsOf(Range(tracks), 2), gain_type \in {"auto"} :
          LET out == RGTrackSet(track, list, gain_type)
          IN  last' = [op |-> "RGTrackSet", arg |-> list, exc |-> out.exc,
                       ret |-> out.ret]
    /\ UNCHANGED <<tracks, track, disk, track_class, track_sets, fs>>
    /\ UNCHANGED main_vars

\* set.gain = value, del set.gain, set.peak = value, del set.peak
SetAlbumTag(tag) ==
    /\ last.op \notin {"start", "RGTrackSet"}
    /\ \E i \in DOMAIN track_sets, value \in WrittenValues :
          track' = _set_tag(track, track_sets[i], tag, value)
    /\ last' = [op |-> "edit"]
    /\ UNCHANGED <<tracks, disk, track_class, track_sets, fs>>
    /\ UNCHANGED main_vars

DelAlbumTag(tag) ==
    /\ last.op \notin {"start", "RGTrackSet"}
    /\ \E i \in DOMAIN track_sets :
          track' = _del_tag(track, track_sets[i], tag)
    /\ last' = [op |-> "edit"]
    /\ UNCHANGED <<tracks, disk, track_class, track_sets, fs>>
    /\ UNCHANGED main_vars

\* track.gain = value, del track.gain, track.peak = value, del track.peak
SetTrackTag(tag) ==
    /\ last.op \notin {"start", "RGTrackSet"}
    /\ \E f \in Range(tracks), value \in WrittenValues :
          track' = [track EXCEPT ![f] = RGTrack_set(@, tag, value)]
    /\ last' = [op |-> "edit"]
    /\ UNCHANGED <<tracks, disk, track_class, track_sets, fs>>
    /\ UNCHANGED main_vars

DelTrackTag(tag) ==
    /\ last.op \notin {"start", "RGTrackSet"}
    /\ \E f \in Range(tracks) :
          track' = [track EXCEPT ![f] = RGTrack_del(@, tag)]
    /\ last' = [op |-> "edit"]
    /\ UNCHANGED <<tracks, disk, track_class, track_sets, fs>>
    /\ UNCHANGED main_vars

NextGroup ==
    \/ CallMakeTrackSets
    \/ CallRGTrackSet
    \/ SetAlbumTag(AlbumGainTag)
    \/ DelAlbumTag(AlbumGainTag)
    \/ SetTrackTag(TrackGainTag)
    \/ DelTrackTag(TrackGainTag)

SpecGroup == InitGroup /\ [][NextGroup]_vars

KeyOf(f) == track_set_key(track, f)
MembersOf(sets) == [i \in DOMAIN sets |-> Members(sets[i])]
Reorderings(list) == {p \in ListsOf(Range(list), Len(list)) : Len(p) = Len(list)}

\* C5: MakeTrackSets returns one set per distinct key of the input, in
\* ascending key order, each holding exactly the input tracks of its key, and
\* every reordering of the input gives the same sets in the same order.
C5_GroupingDeterministic ==
    last.op = "MakeTrackSets" =>
        /\ last.exc = "none"
        /\ Len(track_sets) = Cardinality({KeyOf(f) : f \in Range(tracks)})
        /\ \A i, j \in DOMAIN track_sets :
              i < j => TupleLess(RGTrackSet_track_set_key(track, track_sets[i]),
                                 RGTrackSet_track_set_key(track, track_sets[j]), 1)
        /\ \A i \in DOMAIN track_sets :
              Members(track_sets[i]) =
                  {f \in Range(tracks) :
                      KeyOf(f) = RGTrackSet_track_set_key(track, track_sets[i])}
        /\ \A f \in Range(tracks) :
              Cardinality({i \in DOMAIN track_sets : f \in Members(track_sets[i])}) = 1
        /\ \A p \in Reorderings(tracks) :
              LET out == MakeTrackSets(track, p)
              IN  out.exc = "none" /\ MembersOf(out.ret) = MembersOf(track_sets)

\* Grouping has run on a list that is not in key order and has two tracks of
\* one key.
C5_Witness ==
    /\ last.op = "MakeTrackSets"
    /\ Len(track_sets) = 2
    /\ Len(tracks) = 3
    /\ TupleLess(KeyOf(tracks[3]), KeyOf(tracks[1]), 1)
    /\ KeyOf(tracks[2]) = KeyOf(tracks[3])

KeysOf(S) == {KeyOf(f) : f \in S}
SetsThatExist ==
    Range(track_sets) \cup
    (IF last.op = "RGTrackSet" /\ last.exc = "none" THEN {last.ret} ELSE {})

\* C6: the constructor fails on no tracks and on tracks of more than one key,
\* so every set that exists is non-empty with one key, also after tag
\* writes and deletes on tracks and sets.
C6_SetNonEmptyOneKey ==
    /\ last.op = "RGTrackSet" =>
          /\ last.arg = <<>> => last.exc = "ValueError"
          /\ Cardinality(KeysOf(Range(last.arg))) > 1 => last.exc = "ValueError"
    /\ \A ts \in SetsThatExist :
          Members(ts) # {} /\ Cardinality(KeysOf(Members(ts))) = 1

\* A set of two tracks of which one has had its track gain written.
C6_Witness ==
    /\ last.op = "edit"
    /\ \E ts \in Range(track_sets) :
          /\ Len(ts.RGTracks) = 2
          /\ TrackGainTag \in DOMAIN track[ts.RGTracks[1]]
          /\ TrackGainTag \notin DOMAIN track[ts.RGTracks[2]]
          /\ AlbumGainTag \in DOMAIN track[ts.RGTracks[2]]

\* -------------------------------------------------------------- policy
\* The first n files of one album directory.
AlbumFiles(n) == [i \in 1..n |-> <<"/a", Str(i) \o ".flac">>]
\* Names a marker file can have; the last is not one the program knows.
MarkerLike ==
    {<<"/a", "TRACKGAIN">>, <<"/a", ".TRACKGAIN">>, <<"/a", "_TRACKGAIN">>,
     <<"/a", "trackgain">>, <<"/b", "TRACKGAIN">>}

\* One track set as constructed from n files that carry the tags given.
OneSet(n, tags, gain_type) ==
    /\ tracks = AlbumFiles(n)
    /\ track \in [Range(tracks) -> tags]
    /\ disk = track
    /\ track_sets = <<RGTrackSet(track, tracks, gain_type).ret>>

InitPolicy ==
    /\ \E n \in 1..MaxMembers, meta \in MetaChoices, gain_type \in GainTypes :
          OneSet(n, {meta}, gain_type)
    /\ track_class = "RGTrack"
    /\ fs \in {S \in SUBSET MarkerLike : Cardinality(S) <= MaxMarkers}
    /\ last = [op |-> "start"]
    /\ NoRun

\* set.want_album_gain()
CallWantAlbumGain ==
    /\ \E i \in DOMAIN track_sets :
          LET out == want_album_gain(track, track_sets[i])
          IN  last' = [op |-> "want_album_gain", set |-> i, exc |-> out.exc,
                       ret |-> out.ret]
    /\ UNCHANGED <<tracks, track, disk, track_class, track_sets, fs>>
    /\ UNCHANGED main_vars

\* set.is_multitrack_album()
CallIsMultitrackAlbum ==
    /\ \E i \in DOMAIN track_sets :
          last' = [op |-> "is_multitrack_album", set |-> i, exc |-> "none",
                   ret |-> PyBool(is_multitrack_album(track, track_sets[i]))]
    /\ UNCHANGED <<tracks, track, disk, track_class, track_sets, fs>>
    /\ UNCHANGED main_vars

NextPolicy == CallWantAlbumGain \/ CallIsMultitrackAlbum

SpecPolicy == InitPolicy /\ [][NextPolicy]_vars

\* The album title, album artist and album id of the key are all empty.
AlbumIdentityEmpty(ts) ==
    LET key == RGTrackSet_track_set_key(track, ts)
    IN  key[3] = "" /\ key[4] = "" /\ key[5] = ""
MarkerExists(ts) ==
    \E name \in {"TRACKGAIN", ".TRACKGAIN", "_TRACKGAIN"} :
        <<ts.RGTracks[1][1], name>> \in fs
ModeWantsAlbum(ts) ==
    \/ ts.gain_type = "album"
    \/ ts.gain_type = "auto" /\ ~MarkerExists(ts)

\* C2: want_album_gain() is true exactly when the set has more than one
\* track, its album-identity key fields are not all empty, and the mode wants
\* album tags.
C2_WantAlbumGainIff ==
    last.op = "want_album_gain" =>
        LET ts == track_sets[last.set]
        IN  (last.exc = "none" /\ last.ret = PyTrue) <=>
                /\ Len(ts.RGTracks) > 1
                /\ ~AlbumIdentityEmpty(ts)
                /\ ModeWantsAlbum(ts)

StoredValues(tag) ==
    IF tag = "album" THEN {<<"X">>}
    ELSE IF tag = AlbumGainTag THEN {<<"-6">>, <<"-3">>}
    ELSE IF tag = AlbumPeakTag THEN {<<"1">>, <<"2">>}
    ELSE IF tag = TrackGainTag THEN {<<"-6">>}
    ELSE {<<"1">>}
\* The tags a file of the album can carry: any of the replay gain tags.
StoredTags ==
    UNION {{d \in [present \cup {"album"} -> {<<"X">>, <<"-6">>, <<"-3">>,
                                                 <<"1">>, <<"2">>}] :
               \A t \in DOMAIN d : d[t] \in StoredValues(t)} :
           present \in SUBSET rg_tags}

InitRead ==
    /\ \E n \in 1..MaxMembers, gain_type \in {"album", "track"} :
          OneSet(n, StoredTags, gain_type)
    /\ track_class = "RGTrack"
    /\ fs = {}
    /\ last = [op |-> "start"]
    /\ NoRun

\* set.gain and set.peak
CallGetTag(tag) ==
    /\ \E i \in DOMAIN track_sets :
          last' = [op |-> "_get_tag", set |-> i, tag |-> tag, exc |-> "none",
                   ret |-> _get_tag(track, track_sets[i], tag)]
    /\ UNCHANGED <<tracks, track, disk, track_class, track_sets, fs>>
    /\ UNCHANGED main_vars

\* set.has_valid_rgdata()
CallHasValidRgdata ==
    /\ \E i \in DOMAIN track_sets :
          LET out == has_valid_rgdata(track, track_sets[i])
          IN  last' = [op |-> "has_valid_rgdata", set |-> i, exc |-> out.exc,
                       ret |-> out.ret]
    /\ UNCHANGED <<tracks, track, disk, track_class, track_sets, fs>>
    /\ UNCHANGED main_vars

NextRead ==
    \/ CallGetTag(AlbumGainTag)
    \/ CallGetTag(AlbumPeakTag)
    \/ CallHasValidRgdata

SpecRead == InitRead /\ [][NextRead]_vars

AllHave(ts, tag) == \A f \in Members(ts) : tag \in DOMAIN track[f]
AllAgree(ts, tag) ==
    \A f, g \in Members(ts) : track[f][tag] = track[g][tag]

Consistent(ts, tag) == AllHave(ts, tag) /\ AllAgree(ts, tag)
Absent(ts, tag) == ~AllHave(ts, tag)

C17_BadModeRaises ==
    (/\ last.op = "want_album_gain"
     /\ track_sets[last.set].gain_type \notin {"album", "track", "auto"})
    => last.exc # "none"

\* ------------------------------------------------------------- do_gain
\* What audiotools can give for the files of a set: fewer opened files than
\* asked, an error while measuring, or the album measurement with the
\* measurements of all files or of all but one.
ComputerOutcomes(files) ==
    {[kind |-> "unopened"], [kind |-> "failed"]}
    \cup {[kind |-> "done", rginfo |-> r, album |-> a] :
              r \in [files -> Measurements], a \in Measurements}
    \cup {[kind |-> "done", rginfo |-> [g \in files \ {f} |-> <<-6, 1>>],
            album |-> <<-6, 1>>] : f \in files}

\* A save that writes the file whatever the class of the track.
RGTrack_save_always(cls, dk, tr, f) == [dk EXCEPT ![f] = tr[f]]

\* RGTrack.save and RGTrackDryRun.save
RGTrack_save(cls, dk, tr, f) ==
    IF cls = "RGTrackDryRun" THEN dk ELSE [dk EXCEPT ![f] = tr[f]]

\* RGTrackSet.save: the report, then every track's save.
RGTrackSet_save(cls, dk, tr, ts) ==
    LET want == want_album_gain(tr, ts)
    IN  IF want.exc # "none"
        THEN [exc |-> want.exc, disk |-> dk, saved |-> {}]
        ELSE [exc |-> "none",
              disk |-> [f \in DOMAIN dk |->
                           IF f \in filenames(ts)
                           THEN RGTrack_save(cls, dk, tr, f)[f] ELSE dk[f]],
              saved |-> filenames(ts)]

\* The loop "(track.gain, track.peak) = rginfo[fname]" from track i on, in
\* dict order; it stops at the first file rginfo has no entry for.
RECURSIVE WriteTrackTags(_, _, _, _)
WriteTrackTags(tr, order, rginfo, i) ==
    IF i > Len(order) THEN [exc |-> "none", tr |-> tr]
    ELSE IF order[i] \notin DOMAIN rginfo THEN [exc |-> "KeyError", tr |-> tr]
    ELSE WriteTrackTags(
             [tr EXCEPT ![order[i]] =
                 RGTrack_set(RGTrack_set(@, TrackGainTag, rginfo[order[i]][1]),
                             TrackPeakTag, rginfo[order[i]][2])],
             order, rginfo, i + 1)

\* (self.gain, self.peak) = rginfo[None]
WriteAlbumTags(tr, ts, album) ==
    _set_tag(_set_tag(tr, ts, AlbumGainTag, album[1]), ts, AlbumPeakTag, album[2])

\* A do_gain that analyses every time.
do_gain_never_skips(valid, force) == FALSE

\* The test that ends do_gain before any analysis.
do_gain_skips(valid, force) == Truthy(valid) /\ ~force

\* A writing phase that saves the set even when an assignment raised, as a
\* finally clause around it would.
do_gain_write_saves_anyway(tr, dk, cls, ts, res) ==
    LET loop == WriteTrackTags(tr, ts.RGTracks, res.rginfo, 1)
        want == want_album_gain(loop.tr, ts)
        tr2 == IF loop.exc = "none" /\ Truthy(want.ret)
               THEN WriteAlbumTags(loop.tr, ts, res.album)
               ELSE loop.tr
        sv == RGTrackSet_save(cls, dk, tr2, ts)
    IN  [exc |-> IF loop.exc # "none" THEN loop.exc
                 ELSE IF want.exc # "none" THEN want.exc ELSE sv.exc,
         result |-> IF loop.exc # "none" \/ want.exc # "none"
                    THEN "raised" ELSE "analysed",
         computed |-> TRUE,
         album |-> loop.exc = "none" /\ Truthy(want.ret),
         saved |-> sv.saved, tr |-> tr2, disk |-> sv.disk]

\* The writing phase of do_gain, after the computer returned: the loop over
\* the tracks, the album tags if wanted, and only then self.save().
do_gain_write(tr, dk, cls, ts, res) ==
    LET loop == WriteTrackTags(tr, ts.RGTracks, res.rginfo, 1)
        want == want_album_gain(loop.tr, ts)
        tr2 == IF Truthy(want.ret)
               THEN WriteAlbumTags(loop.tr, ts, res.album)
               ELSE loop.tr
        sv == RGTrackSet_save(cls, dk, tr2, ts)
    IN  IF loop.exc # "none"
        THEN [exc |-> loop.exc, result |-> "raised", computed |-> TRUE,
              album |-> FALSE, saved |-> {}, tr |-> loop.tr, disk |-> dk]
        ELSE IF want.exc # "none"
        THEN [exc |-> want.exc, result |-> "raised", computed |-> TRUE,
              album |-> FALSE, saved |-> {}, tr |-> loop.tr, disk |-> dk]
        ELSE [exc |-> sv.exc, result |-> "analysed", computed |-> TRUE,
              album |-> Truthy(want.ret), saved |-> sv.saved, tr |-> tr2,
              disk |-> sv.disk]

\* set.do_gain(force, gain_type): the outcome, the tags in memory and stored.
do_gain(tr, dk, cls, ts, force, gain_type, res) ==
    LET valid == has_valid_rgdata(tr, ts)
        Unchanged(exc, result, computed) ==
            [exc |-> exc, result |-> result, computed |-> computed,
             album |-> FALSE, saved |-> {}, tr |-> tr, disk |-> dk]
    IN  IF valid.exc # "none" THEN Unchanged(valid.exc, "raised", FALSE)
        ELSE IF do_gain_skips(valid.ret, force)
        THEN Unchanged("none", "skipped", FALSE)
        ELSE IF res.kind = "unopened" THEN Unchanged("Exception", "raised", FALSE)
        ELSE IF res.kind = "failed" THEN Unchanged("ValueError", "raised", TRUE)
        ELSE do_gain_write(tr, dk, cls, ts, res)

\* The tags earlier runs of a tagger left in a file: gain and peak together.
PriorTags ==
    {d \in StoredTags :
        /\ TrackGainTag \in DOMAIN d <=> TrackPeakTag \in DOMAIN d
        /\ AlbumGainTag \in DOMAIN d <=> AlbumPeakTag \in DOMAIN d
        /\ AlbumGainTag \in DOMAIN d =>
              d[AlbumGainTag] = <<"-6">> /\ d[AlbumPeakTag] = <<"1">>}

\* The gain_type argument of do_gain: a mode, or None for no argument.
GainTypeArgs == {"None", "album", "track"}

Init ==
    /\ \E n \in 1..MaxMembers, gain_type \in GainTypes :
          OneSet(n, PriorTags, gain_type)
    /\ track_class = "RGTrack"
    /\ fs \in {{}, {<<"/a", "TRACKGAIN">>}}
    /\ last = [op |-> "start"]
    /\ NoRun

\* track_sets[i].do_gain(force=force, gain_type=gain_type)
CallDoGain(i, force, gain_type, res) ==
    \E out \in {do_gain(track, disk, track_class, track_sets[i], force,
                         gain_type, res)} :
        /\ track' = out.tr
        /\ disk' = out.disk
        /\ last' = [op |-> "do_gain", set |-> i, force |-> force,
                    exc |-> out.exc, result |-> out.result,
                    computed |-> out.computed, album |-> out.album,
                    saved |-> out.saved,
                    rginfo |-> IF out.result = "analysed" THEN res.rginfo
                               ELSE <<>>,
                    album_info |-> IF out.album THEN res.album
                                   ELSE <<>>]
        /\ UNCHANGED <<tracks, track_class, track_sets, fs>>
        /\ UNCHANGED main_vars

DoGain ==
    \E i \in DOMAIN track_sets, force \in BOOLEAN, gain_type \in GainTypeArgs :
        \E res \in ComputerOutcomes(Members(track_sets[i])) :
            CallDoGain(i, force, gain_type, res)

Next == DoGain

Spec == Init /\ [][Next]_vars

\* The set the last do_gain call was made on.
LastSet == track_sets[last.set]
Analysed == last.op = "do_gain" /\ last.result = "analysed" /\ last.exc = "none"
\* The set as it would be with the mode given to the call.
WithMode(ts, gain_type) ==
    IF gain_type = "None" THEN ts ELSE [ts EXCEPT !.gain_type = gain_type]

\* C7: a gain_type given to do_gain governs that call in place of the mode
\* the set was built with: the call skips only a set that is valid under the
\* given mode, and it writes album tags exactly when the given mode wants
\* album gain.
C7_GainTypeArgumentGoverns ==
    [][\A i \in DOMAIN track_sets, force \in BOOLEAN,
          gain_type \in GainTypeArgs \ {"None"} :
          \A res \in ComputerOutcomes(Members(track_sets[i])) :
              CallDoGain(i, force, gain_type, res) =>
                  LET given == WithMode(track_sets[i], gain_type)
                  IN  /\ last'.result = "skipped" =>
                            has_valid_rgdata(track, given) = Return(PyTrue)
                      /\ last'.result = "analysed" =>
                            (last'.album <=>
                               want_album_gain(track', given) = Return(PyTrue))
      ]_vars

\* C8: do_gain without force on a set whose replay gain data is valid is a
\* no-op: the gain computer is not run, no tag changes, no track is saved,
\* and the call returns normally; a repeated call on a set left valid
\* analyses nothing more.
C8_ValidSetIsSkipped ==
    [][(/\ last'.op = "do_gain"
        /\ ~last'.force
        /\ has_valid_rgdata(track, track_sets[last'.set]) = Return(PyTrue))
       => /\ last'.result = "skipped"
          /\ last'.exc = "none"
          /\ ~last'.computed
          /\ last'.saved = {}
          /\ track' = track
          /\ disk' = disk]_vars
\* A call without force has just skipped a two-track album whose tags an
\* earlier call wrote.
C8_Witness ==
    /\ last.op = "do_gain" /\ last.result = "skipped" /\ ~last.force
    /\ Len(LastSet.RGTracks) = 2
    /\ \E f \in Members(LastSet) : track[f][TrackGainTag] = <<"-3">>

\* The file carries exactly the string of the number under the tag.
Carries(f, tag, value) ==
    tag \in DOMAIN track[f] /\ track[f][tag] = <<Str(value)>>

\* C9: after a do_gain that analysed and did not raise, on a set that wants
\* album gain, every member carries the track gain and peak measured for
\* that file, and every member carries the one measured album gain and album
\* peak, so that the set reads them back as a value.
C9_AlbumRunWritesEveryTrack ==
    (Analysed /\ want_album_gain(track, LastSet) = Return(PyTrue)) =>
        /\ \A f \in Members(LastSet) :
              /\ Carries(f, TrackGainTag, last.rginfo[f][1])
              /\ Carries(f, TrackPeakTag, last.rginfo[f][2])
              /\ Carries(f, AlbumGainTag, last.album_info[1])
              /\ Carries(f, AlbumPeakTag, last.album_info[2])
        /\ RGTrackSet_gain(track, LastSet) = PyTuple(<<Str(last.album_info[1])>>)
        /\ RGTrackSet_peak(track, LastSet) = PyTuple(<<Str(last.album_info[2])>>)
\* An album of two tracks with different measurements was analysed over
\* older album tags.
C9_Witness ==
    /\ Analysed /\ want_album_gain(track, LastSet) = Return(PyTrue)
    /\ Len(LastSet.RGTracks) = 2
    /\ last.rginfo[LastSet.RGTracks[1]] # last.rginfo[LastSet.RGTracks[2]]
    /\ last.album_info = <<-3, 2>>

\* C10: after a do_gain that analysed and did not raise, on a set that does
\* not want album gain, the set has no album gain and no album peak, and its
\* replay gain data is valid.
C10_TrackRunLeavesNoAlbumData ==
    (Analysed /\ want_album_gain(track, LastSet) = Return(PyFalse)) =>
        /\ RGTrackSet_gain(track, LastSet) = PyNone
        /\ RGTrackSet_peak(track, LastSet) = PyNone
        /\ has_valid_rgdata(track, LastSet) = Return(PyTrue)

\* C22: do_gain saves a track only after the gain computer returned and
\* every track tag, and the album tags if wanted, were assigned: a call that
\* saved has saved every member, each with the measured values, and did not
\* raise.  A call that raises, because the files could not be loaded, the
\* computer failed or the result has no entry for a member, has saved no
\* track and leaves the stored tags of every file as they were.
C22_NothingSavedOnFailure ==
    /\ [](last.op = "do_gain" =>
            /\ last.exc # "none" => last.result = "raised" /\ last.saved = {}
            /\ last.saved # {} =>
                  /\ last.computed /\ last.exc = "none"
                  /\ last.saved = Members(LastSet)
                  /\ \A f \in Members(LastSet) :
                        /\ Carries(f, TrackGainTag, last.rginfo[f][1])
                        /\ Carries(f, TrackPeakTag, last.rginfo[f][2])
                        /\ last.album =>
                              /\ Carries(f, AlbumGainTag, last.album_info[1])
                              /\ Carries(f, AlbumPeakTag, last.album_info[2])
                        /\ disk[f] = track[f])
    /\ [][(last'.op = "do_gain" /\ last'.exc # "none") => disk' = disk]_vars
\* The result had no entry for the second track of an album: the call raised
\* KeyError after the first track's tags were overwritten in memory, and the
\* file still holds the old ones.
C22_Witness ==
    /\ last.op = "do_gain" /\ last.exc = "KeyError" /\ last.computed
    /\ Len(LastSet.RGTracks) = 2
    /\ track[LastSet.RGTracks[1]] # disk[LastSet.RGTracks[1]]
    /\ Carries(LastSet.RGTracks[1], TrackGainTag, -6)
    /\ track[LastSet.RGTracks[2]] = disk[LastSet.RGTracks[2]]

\* ------------------------------------------------------------ dry run
\* The album sizes of the dry run: a single track and a multitrack album.
DryRunSizes == {1, 2}

\* One album of tracks built as RGTrackDryRun.
InitDryRun ==
    /\ \E n \in DryRunSizes, gain_type \in {"album", "track"} :
          OneSet(n, PriorTags, gain_type)
    /\ track_class = "RGTrackDryRun"
    /\ fs = {}
    /\ last = [op |-> "start"]
    /\ NoRun

\* track_sets[i].save()
CallSave ==
    \E i \in DOMAIN track_sets :
        \E out \in {RGTrackSet_save(track_class, disk, track, track_sets[i])} :
            /\ disk' = out.disk
            /\ last' = [op |-> "save", set |-> i, exc |-> out.exc,
                        saved |-> out.saved]
            /\ UNCHANGED <<tracks, track, track_class, track_sets, fs>>
            /\ UNCHANGED main_vars

NextDryRun ==
    \/ DoGain
    \/ CallSave

SpecDryRun == InitDryRun /\ [][NextDryRun]_vars

\* What do_gain and save would do next on dry-run tracks is what they would
\* do on real tracks, except that the stored tags stay.
DryRunAsReal ==
    \A i \in DOMAIN track_sets :
        /\ LET dry == RGTrackSet_save(track_class, disk, track, track_sets[i])
               real == RGTrackSet_save("RGTrack", disk, track, track_sets[i])
           IN  dry.disk = disk /\ dry.exc = real.exc /\ dry.saved = real.saved
        /\ \A force \in BOOLEAN, gain_type \in GainTypeArgs :
              \A res \in ComputerOutcomes(Members(track_sets[i])) :
                  LET dry == do_gain(track, disk, track_class, track_sets[i],
                                     force, gain_type, res)
                      real == do_gain(track, disk, "RGTrack", track_sets[i],
                                      force, gain_type, res)
                  IN  /\ dry.disk = disk
                      /\ dry.tr = real.tr
                      /\ dry.exc = real.exc
                      /\ dry.result = real.result
                      /\ dry.album = real.album
                      /\ dry.saved = real.saved
                      /\ \A tag \in rg_tags :
                            _get_tag(dry.tr, track_sets[i], tag) =
                                _get_tag(real.tr, track_sets[i], tag)

\* C11: on sets of dry-run tracks no do_gain and no save changes the tags
\* stored in a file, while the tags in memory, the aggregate reads and the
\* reported outcome of every call are those of a real run.
C11_DryRunPersistsNothing ==
    /\ [](track_class = "RGTrackDryRun" => DryRunAsReal)
    /\ [][track_class = "RGTrackDryRun" => disk' = disk]_vars
\* A dry run has analysed an album and gone through save: the tags in memory
\* are the new ones, the stored ones are not.
C11_Witness ==
    /\ track_class = "RGTrackDryRun"
    /\ Analysed /\ last.saved = Members(LastSet) /\ Len(LastSet.RGTracks) = 2
    /\ \A f \in Members(LastSet) :
          TrackGainTag \in DOMAIN track[f] /\ TrackGainTag \notin DOMAIN disk[f]

\* ----------------------------------------------- the bs1770gain backend
basename(f) == f[2]

\* What bs1770gain prints: the album summary, if any, and one track element
\* per file it measured, values as the strings of the XML attributes.
TrackElements ==
    {[file |-> basename(f), lu |-> Str(m[1]), factor |-> Str(m[2])] :
        f \in Files, m \in Measurements}
BackendOutputs ==
    [album : {<<>>} \cup {<<Str(m[1]), Str(m[2])>> : m \in Measurements},
     tracks : ListsOf(TrackElements, MaxTracks),
     returncode : {0, 1}]

\* The dict filled by the loop over the track elements, a later element of a
\* file replacing an earlier one.
RECURSIVE FillRginfo(_, _, _, _)
FillRginfo(fnames, xml, i, rginfo) ==
    IF i > Len(xml.tracks) THEN rginfo
    ELSE LET el == xml.tracks[i]
             fname == CHOOSE f \in Range(fnames) : basename(f) = el.file
         IN  FillRginfo(fnames, xml, i + 1,
                 Put(rginfo, fname,
                     [replaygain_track_gain |-> el.lu,
                      replaygain_track_peak |-> el.factor,
                      replaygain_album_gain |-> xml.album[1],
                      replaygain_album_peak |-> xml.album[2]]))

\* Bs1770gainGainComputer.compute_gain(fnames) when the program prints xml.
compute_gain(fnames, xml) ==
    LET basenames_to_fnames == {basename(f) : f \in Range(fnames)}
    IN  IF Cardinality(basenames_to_fnames) # Len(fnames)
        THEN Raise("ValueError")
        ELSE IF xml.album = <<>> THEN Raise("IndexError")
        ELSE IF \E i \in DOMAIN xml.tracks :
                    xml.tracks[i].file \notin basenames_to_fnames
        THEN Raise("KeyError")
        ELSE IF xml.returncode # 0 THEN Raise("CalledProcessError")
        ELSE Return(FillRginfo(fnames, xml, 1, EmptyDict))

InitBackend ==
    /\ tracks \in ListsOf(Files, MaxTracks)
    /\ track = [f \in Range(tracks) |-> EmptyDict]
    /\ disk = track
    /\ track_class = "RGTrack"
    /\ track_sets = <<>>
    /\ fs = {}
    /\ last = [op |-> "start"]
    /\ NoRun

\* rginfo = compute_gain(fnames)
CallComputeGain ==
    /\ last.op = "start"
    /\ \E xml \in BackendOutputs :
          \E out \in {compute_gain(tracks, xml)} :
              last' = [op |-> "compute_gain", fnames |-> tracks, xml |-> xml,
                       exc |-> out.exc, ret |-> out.ret]
    /\ UNCHANGED <<tracks, track, disk, track_class, track_sets, fs>>
    /\ UNCHANGED main_vars

NextBackend == CallComputeGain

SpecBackend == InitBackend /\ [][NextBackend]_vars

\* C16: when the output of the backend has no entry for a requested file,
\* compute_gain raises instead of returning a mapping without that file.
C16_OmittedFileRaises ==
    (/\ last.op = "compute_gain"
     /\ \E f \in Range(last.fnames) :
           \A i \in DOMAIN last.xml.tracks :
               last.xml.tracks[i].file # basename(f))
    => last.exc # "none"

\* -------------------------------------------------------------- main()
\* The files of the music directories in the order the walk meets them.
WalkOrder ==
    <<(<<"/a", "1.flac">>), (<<"/a", "2.flac">>), (<<"/a", "3.mp3">>),
      (<<"/b", "1.flac">>)>>
\* The lists of tracks the search can find.
FoundLists ==
    {SelectSeq(WalkOrder, LAMBDA f : f \in S) :
        S \in {T \in SUBSET Files : Cardinality(T) <= MaxTracks}}
\* The whole seconds a track can last.
Lengths == {0, 1, 150}

\* sum(t.length_seconds for t in tracks)
RECURSIVE SumLengths(_, _)
SumLengths(lens, S) ==
    IF S = {} THEN 0
    ELSE LET f == CHOOSE f \in S : TRUE
         IN  lens[f] + SumLengths(lens, S \ {f})
\* len(track_set)
RGTrackSet_len(lens, ts) == SumLengths(lens, Members(ts))
\* total_length = sum(len(ts) for ts in track_sets)
total_length(lens, sets) == SumLengths(lens, UNION {Members(sets[i]) : i \in DOMAIN sets})
\* min_step = min(len(ts) for ts in track_sets)
min_step(lens, sets) ==
    CHOOSE m \in {RGTrackSet_len(lens, sets[i]) : i \in DOMAIN sets} :
        \A i \in DOMAIN sets : m <= RGTrackSet_len(lens, sets[i])

RECURSIVE Pow10(_)
Pow10(p) == IF p = 0 THEN 1 ELSE 10 * Pow10(p - 1)
\* The least p >= 0 with step * 100 / total >= 10^-p, which is
\* max(0, ceil(-log10(step * 100.0 / total))).
RECURSIVE CeilMinusLog10(_, _, _)
CeilMinusLog10(step, total, p) ==
    IF step * 100 * Pow10(p) >= total THEN p
    ELSE CeilMinusLog10(step, total, p + 1)
\* places_past_decimal; the division and the logarithm can raise.
compute_places_past_decimal(step, total) ==
    IF total = 0 THEN Raise("ZeroDivisionError")
    ELSE IF step = 0 THEN Raise("ValueError")
    ELSE Return(CeilMinusLog10(step, total, 0))

\* processed_length = len(ts), the sets before it forgotten.
next_processed_length_not_summed(processed, ts_len) == ts_len
\* processed_length = processed_length + len(ts)
next_processed_length(processed, ts_len) == processed + ts_len
\* percent_done = 100.0 * processed_length / total_length, as a fraction.
percent_done(processed, total) == [num |-> 100 * processed, den |-> total]

\* A handler that lets the exception of do_gain through.
TrackSetHandler_call_uncaught(outcome) == outcome
\* TrackSetHandler.__call__: what the caller sees when do_gain ends with
\* outcome; an Exception is logged and the set is returned all the same.
TrackSetHandler_call(outcome) ==
    IF outcome = "Exception" THEN "returned" ELSE outcome

\* A SIGINT that raises KeyboardInterrupt whatever handler is installed.
deliver_SIGINT_default(handler) == "KeyboardInterrupt"
\* What a SIGINT does under the installed handler.
deliver_SIGINT(handler) ==
    IF handler = "signal_handler" THEN "SIGTERM" ELSE "KeyboardInterrupt"

\* An except clause that leaves the pool alone.
except_KeyboardInterrupt_pass(p, calls) == [pool |-> p, pool_calls |-> calls]
\* An except clause that terminates the pool and keeps the reference to it.
except_KeyboardInterrupt_keeps_pool(p, calls) ==
    IF p # "None"
    THEN [pool |-> p, pool_calls |-> Append(calls, "terminate")]
    ELSE [pool |-> p, pool_calls |-> calls]
\* except KeyboardInterrupt: terminate the pool if there is one.
except_KeyboardInterrupt(p, calls) ==
    IF p # "None"
    THEN [pool |-> "None", pool_calls |-> Append(calls, "terminate")]
    ELSE [pool |-> p, pool_calls |-> calls]
\* finally: close the pool if there is one.
finally_close(p, calls) ==
    IF p # "None"
    THEN [pool |-> p, pool_calls |-> Append(calls, "close")]
    ELSE [pool |-> p, pool_calls |-> calls]

\* Any set not yet started may be the next.
NextTasks_any_order(sets, begun) == DOMAIN sets \ Range(begun)
\* imap and imap_unordered take the sets in the order of the list.
NextTasks(sets, begun) ==
    IF Len(begun) < Len(sets) THEN {Len(begun) + 1} ELSE {}

\* main() has installed signal_handler and chosen the track class.
InitRun ==
    /\ tracks = <<>>
    /\ track = <<>>
    /\ disk = <<>>
    /\ track_class \in {"RGTrack", "RGTrackDryRun"}
    /\ track_sets = <<>>
    /\ fs = {}
    /\ last = [op |-> "start"]
    /\ pc = "start"
    /\ sigint = "signal_handler"
    /\ music_directories \in {<<>>, <<"/">>}
    /\ jobs \in {1, 2}
    /\ length_seconds = <<>>
    /\ places_past_decimal = <<>>
    /\ pool = "None"
    /\ pool_calls = <<>>
    /\ started = <<>>
    /\ running = {}
    /\ finished = <<>>
    /\ failed = {}
    /\ handled_track_sets = <<>>
    /\ processed_length = 0
    /\ reports = <<>>
    /\ exit_status = "running"
    /\ log = {}

dispatch_vars ==
    <<pool, pool_calls, started, running, finished, failed,
      handled_track_sets, processed_length, reports>>

\* if len(music_directories) == 0: sys.exit(1)
NoDirectories ==
    /\ pc = "start" /\ music_directories = <<>>
    /\ pc' = "exited"
    /\ exit_status' = "1"
    /\ UNCHANGED <<tracks, track, disk, track_class, track_sets, fs, last,
                   sigint, music_directories, jobs, length_seconds,
                   places_past_decimal, dispatch_vars, log>>

\* The search for tracks, tracks without a length dropped; no track: exit.
FindTracks ==
    /\ pc = "start" /\ music_directories # <<>>
    /\ \E found \in FoundLists :
          /\ tracks' = found
          /\ track' = [f \in Range(found) |-> EmptyDict]
          /\ disk' = [f \in Range(found) |-> EmptyDict]
          /\ length_seconds' \in [Range(found) -> Lengths]
          /\ IF found = <<>>
             THEN pc' = "exited" /\ exit_status' = "1"
             ELSE pc' = "found" /\ exit_status' = exit_status
    /\ UNCHANGED <<track_class, track_sets, fs, last, sigint,
                   music_directories, jobs, places_past_decimal,
                   dispatch_vars, log>>

\* track_sets = RGTrackSet.MakeTrackSets(tracks)
Group ==
    /\ pc = "found"
    /\ track_sets' = MakeTrackSets(track, tracks).ret
    /\ pc' = "grouped"
    /\ UNCHANGED <<tracks, track, disk, track_class, fs, last, sigint,
                   music_directories, jobs, length_seconds,
                   places_past_decimal, dispatch_vars, exit_status, log>>

\* signal.signal(signal.SIGINT, original_handler)
RestoreHandler ==
    /\ pc = "grouped"
    /\ sigint' = "original_handler"
    /\ pc' = "restored"
    /\ UNCHANGED <<tracks, track, disk, track_class, track_sets, fs, last,
                   music_directories, jobs, length_seconds,
                   places_past_decimal, dispatch_vars, exit_status, log>>

\* total_length, min_step, places_past_decimal; an error here is not caught.
Precision ==
    /\ pc = "restored"
    /\ \E out \in {compute_places_past_decimal(
                        min_step(length_seconds, track_sets),
                        total_length(length_seconds, track_sets))} :
          IF out.exc = "none"
          THEN /\ places_past_decimal' = <<out.ret>>
               /\ pc' = "ready"
               /\ UNCHANGED <<last, exit_status, log>>
          ELSE /\ last' = [op |-> "uncaught", exc |-> out.exc]
               /\ pc' = "exited"
               /\ exit_status' = "1"
               /\ log' = log \cup {"Traceback"}
               /\ UNCHANGED places_past_decimal
    /\ UNCHANGED <<tracks, track, disk, track_class, track_sets, fs, sigint,
                   music_directories, jobs, length_seconds, dispatch_vars>>

\* pool = None; the iterator of handled sets, with a Pool unless jobs == 1.
BeginDispatch ==
    /\ pc = "ready"
    /\ IF jobs = 1
       THEN UNCHANGED <<pool, pool_calls>>
       ELSE pool' = "Pool" /\ pool_calls' = <<"Pool">>
    /\ processed_length' = 0
    /\ pc' = "loop"
    /\ UNCHANGED <<tracks, track, disk, track_class, track_sets, fs, last,
                   sigint, music_directories, jobs, length_seconds,
                   places_past_decimal, started, running, finished, failed,
                   handled_track_sets, reports, exit_status, log>>

setup_vars ==
    <<tracks, track, disk, track_class, track_sets, fs, sigint,
      music_directories, jobs, length_seconds, places_past_decimal>>

\* The handler is called on the next set: by imap when the loop asks for a
\* result, by a free worker of the pool.
Start ==
    /\ pc = "loop"
    /\ IF jobs = 1 THEN running = {} /\ finished = <<>>
       ELSE Cardinality(running) < jobs
    /\ \E i \in NextTasks(track_sets, started) :
          /\ started' = Append(started, i)
          /\ running' = running \cup {i}
    /\ UNCHANGED <<setup_vars, last, pc, pool, pool_calls, finished, failed,
                   handled_track_sets, processed_length, reports,
                   exit_status, log>>

\* do_gain of a running set ends, normally or with an Exception, and the
\* handler returns; an exception it let through would end main untreated.
Finish ==
    /\ pc = "loop"
    /\ \E i \in running, outcome \in {"returned", "Exception"} :
          /\ running' = running \ {i}
          /\ IF TrackSetHandler_call(outcome) = "returned"
             THEN /\ finished' = Append(finished, i)
                  /\ failed' = IF outcome = "Exception" THEN failed \cup {i}
                               ELSE failed
                  /\ UNCHANGED <<last, pc, pool, pool_calls, exit_status, log>>
             ELSE \E fin \in {finally_close(pool, pool_calls)} :
                  /\ pool' = fin.pool
                  /\ pool_calls' = fin.pool_calls
                  /\ last' = [op |-> "uncaught", exc |-> outcome]
                  /\ pc' = "exited"
                  /\ exit_status' = "1"
                  /\ log' = log \cup {"Traceback"}
                  /\ UNCHANGED <<finished, failed>>
    /\ UNCHANGED <<setup_vars, started, handled_track_sets, processed_length,
                   reports>>

\* The body of the loop for the next handled set.
Report ==
    /\ pc = "loop"
    /\ finished # <<>>
    /\ LET ts == track_sets[Head(finished)]
           processed == next_processed_length(
                            processed_length, RGTrackSet_len(length_seconds, ts))
       IN  /\ processed_length' = processed
           /\ reports' = Append(reports,
                  percent_done(processed,
                               total_length(length_seconds, track_sets)))
    /\ handled_track_sets' = Append(handled_track_sets, Head(finished))
    /\ finished' = Tail(finished)
    /\ UNCHANGED <<setup_vars, last, pc, pool, pool_calls, started, running,
                   failed, exit_status, log>>

\* The iterator is exhausted: "Analysis complete.", the finally clause, and
\* main returns.
Complete ==
    /\ pc = "loop"
    /\ Len(handled_track_sets) = Len(track_sets)
    /\ \E fin \in {finally_close(pool, pool_calls)} :
          /\ pool' = fin.pool
          /\ pool_calls' = fin.pool_calls
    /\ log' = log \cup {"Analysis complete."}
    /\ pc' = "exited"
    /\ exit_status' = "0"
    /\ UNCHANGED <<setup_vars, last, started, running, finished, failed,
                   handled_track_sets, processed_length, reports>>

\* A SIGINT arrives.  Under signal_handler the process logs "Canceled." and
\* kills itself with SIGTERM.  Under the original handler KeyboardInterrupt
\* is raised in main: inside the try it passes the except and the finally
\* clause, and plac_call_main logs "Canceled." and exits with 1.
Interrupt ==
    /\ pc \notin {"none", "exited"}
    /\ IF deliver_SIGINT(sigint) = "SIGTERM"
       THEN /\ exit_status' = "SIGTERM"
            /\ UNCHANGED <<pool, pool_calls, running>>
       ELSE /\ exit_status' = "1"
            /\ running' = {}
            /\ IF pc = "loop"
               THEN \E ex \in {except_KeyboardInterrupt(pool, pool_calls)} :
                    \E fin \in {finally_close(ex.pool, ex.pool_calls)} :
                        pool' = fin.pool /\ pool_calls' = fin.pool_calls
               ELSE UNCHANGED <<pool, pool_calls>>
    /\ log' = log \cup {"Canceled."}
    /\ last' = [op |-> "SIGINT", pc |-> pc, handler |-> sigint]
    /\ pc' = "exited"
    /\ UNCHANGED <<setup_vars, started, finished, failed, handled_track_sets,
                   processed_length, reports>>

NextRun ==
    \/ NoDirectories
    \/ FindTracks
    \/ Group
    \/ RestoreHandler
    \/ Precision
    \/ BeginDispatch
    \/ Start
    \/ Finish
    \/ Report
    \/ Complete
    \/ Interrupt

SpecRun == InitRun /\ [][NextRun]_vars

TotalLength == total_length(length_seconds, track_sets)
Cancelled == last.op = "SIGINT"
SetupPhase == {"start", "found", "grouped"}
DispatchPhase == {"restored", "ready", "loop"}

\* C12: an Exception of do_gain on one set is caught by the handler: the
\* run does not end on it, the failed set is returned and counted like the
\* others, every other set is still analysed and returned, and a run that
\* was not cancelled ends with as many handled sets as there are sets.
C12_FailureIsolated ==
    /\ ~(last.op = "uncaught" /\ last.exc = "Exception")
    /\ failed \subseteq Range(finished) \cup Range(handled_track_sets)
    /\ Len(reports) = Len(handled_track_sets)
    /\ exit_status = "0" =>
          /\ Len(handled_track_sets) = Len(track_sets)
          /\ Range(handled_track_sets) = DOMAIN track_sets
          /\ Range(started) = DOMAIN track_sets
          /\ processed_length = TotalLength
\* A run of three sets has ended normally though do_gain raised on some of
\* them and not on others.
C12_Witness ==
    /\ exit_status = "0"
    /\ Len(track_sets) = 3
    /\ failed # {} /\ failed # DOMAIN track_sets

\* C13: the percent_done values reported never decrease, and when the last
\* set has been handled processed_length is total_length and the last value
\* reported is exactly 100.
C13_ProgressMonotone ==
    /\ \A k \in 1..(Len(reports) - 1) :
          reports[k].num * reports[k + 1].den
              <= reports[k + 1].num * reports[k].den
    /\ (pc \in {"loop", "exited"} /\ places_past_decimal # <<>>
           /\ Len(handled_track_sets) = Len(track_sets)) =>
          /\ processed_length = TotalLength
          /\ reports[Len(reports)].num = 100 * reports[Len(reports)].den
\* Three sets of different lengths were handled in another order than they
\* were started.
C13_Witness ==
    /\ Len(reports) = 3
    /\ handled_track_sets # started
    /\ reports[1].num < reports[2].num /\ reports[2].num < reports[3].num
    /\ \E i, j \in DOMAIN track_sets :
          RGTrackSet_len(length_seconds, track_sets[i])
              # RGTrackSet_len(length_seconds, track_sets[j])

\* C14: a SIGINT during dispatch ends the run as a cancellation: no set is
\* started any more, the calls in progress are ended by pool.terminate()
\* and not by close(), main keeps no pool, "Canceled." is logged and not
\* "Analysis complete.", and the exit status is 1.
C14_CancelDuringDispatch ==
    /\ []((Cancelled /\ last.pc = "loop") =>
            /\ running = {}
            /\ pool = "None"
            /\ pool_calls = IF jobs = 1 THEN <<>> ELSE <<"Pool", "terminate">>
            /\ exit_status = "1"
            /\ "Canceled." \in log
            /\ "Analysis complete." \notin log)
    /\ [][last'.op = "SIGINT" => started' = started]_vars
\* The SIGINT came while a pool of two workers had sets in progress and a
\* set not yet started.
C14_Witness ==
    /\ Cancelled /\ last.pc = "loop"
    /\ jobs = 2
    /\ Len(started) = 2 /\ Len(track_sets) = 3
    /\ Len(handled_track_sets) + Len(finished) < 2

\* C15: the exit code is 1 when there was no music directory, when no
\* track was found and when the user cancelled, and 0 in every other case.
C15_ExitCode ==
    exit_status # "running" =>
        IF \/ music_directories = <<>>
           \/ tracks = <<>>
           \/ Cancelled
        THEN exit_status = "1"
        ELSE exit_status = "0"

\* C18: in a run that is not cancelled every set of the grouping is given
\* to the handler exactly once, with one job or with several, and the sets
\* are started in the order of the grouping, which is ascending key order;
\* with several jobs only the order of completion can differ.
C18_ExactlyOnceInOrder ==
    /\ \A k \in DOMAIN started : started[k] = k
    /\ \A i, j \in DOMAIN track_sets :
          i < j => TupleLess(RGTrackSet_track_set_key(track, track_sets[i]),
                             RGTrackSet_track_set_key(track, track_sets[j]), 1)
    /\ \A k, l \in DOMAIN handled_track_sets :
          handled_track_sets[k] = handled_track_sets[l] => k = l
    /\ Range(handled_track_sets) \cup Range(finished) \cup running
          = Range(started) \/ Cancelled
    /\ jobs = 1 => \A k \in DOMAIN handled_track_sets :
                       handled_track_sets[k] = k
    /\ exit_status = "0" => Len(started) = Len(track_sets)
\* A run with a pool has handled all three sets, in another order than it
\* started them.
C18_Witness ==
    /\ exit_status = "0"
    /\ jobs = 2
    /\ started = <<1, 2, 3>>
    /\ handled_track_sets # started

\* C19: while main searches and groups, SIGINT is handled by signal_handler,
\* which ends the process with SIGTERM and raises nothing; the original
\* handler is back after MakeTrackSets has returned and before the first set
\* is started, so that from then on a SIGINT ends the run as a cancellation.
C19_SetupInterruptPolicy ==
    /\ pc \in SetupPhase => sigint = "signal_handler"
    /\ pc \in DispatchPhase => sigint = "original_handler"
    /\ started # <<>> => sigint = "original_handler"
    /\ (Cancelled /\ last.pc \in SetupPhase) =>
          /\ last.handler = "signal_handler"
          /\ exit_status = "SIGTERM"
          /\ started = <<>>
    /\ (Cancelled /\ last.pc \in DispatchPhase) =>
          /\ last.handler = "original_handler"
          /\ exit_status = "1"
          /\ "Canceled." \in log
\* The SIGINT came after the search, before grouping.
C19_Witness ==
    /\ Cancelled /\ last.pc = "found"
    /\ exit_status = "SIGTERM"
    /\ Len(tracks) = 2

\* n / d rounded to the nearest integer, a tie to the even one, as "%f" does.
RoundHalfEven(n, d) ==
    LET q == n \div d
        r == n % d
    IN  IF 2 * r < d THEN q
        ELSE IF 2 * r > d THEN q + 1
        ELSE IF q % 2 = 0 THEN q ELSE q + 1
\* The percentage shown for processed, in units of its last digit.
Shown(processed, total, places) ==
    RoundHalfEven(100 * processed * Pow10(places), total)

\* Between any two amounts a smallest set apart the percentage shown differs
\* by a unit of its last digit or more.
StepShown ==
    places_past_decimal # <<>> =>
        LET step == min_step(length_seconds, track_sets)
        IN  \A x \in 0..(TotalLength - step) :
                Shown(x + step, TotalLength, places_past_decimal[1])
                    - Shown(x, TotalLength, places_past_decimal[1]) >= 1

\* C20: places_past_decimal can be computed for every list of set lengths,
\* a set of length 0 included, and with it the completion of the smallest
\* set changes the percentage shown by at least one unit of its last digit.
C20_PrecisionShowsSmallestStep ==
    /\ pc = "exited" /\ last.op = "uncaught" =>
          last.exc \notin {"ValueError", "ZeroDivisionError"}
    /\ StepShown

\* The try statement of main has been left, by the end of the loop or by a
\* KeyboardInterrupt raised inside it.
LeftDispatch ==
    /\ pc = "exited"
    /\ \/ exit_status = "0"
       \/ Cancelled /\ last.pc = "loop"

\* C21: with one job no pool is ever created; with several jobs the pool is
\* created once, when dispatch begins; when main has left the try statement
\* the pool has been torn down exactly once, by terminate() if the run was
\* interrupted and by close() if it was not, and never by both.
C21_PoolTornDownOnce ==
    /\ jobs = 1 => pool_calls = <<>> /\ pool = "None"
    /\ pool_calls \in {<<>>, <<"Pool">>, <<"Pool", "terminate">>,
                       <<"Pool", "close">>}
    /\ pc \in SetupPhase \cup {"restored", "ready"} => pool_calls = <<>>
    /\ (pc = "loop" /\ jobs # 1) => pool_calls = <<"Pool">> /\ pool = "Pool"
    /\ (LeftDispatch /\ jobs # 1) =>
          pool_calls = IF Cancelled THEN <<"Pool", "terminate">>
                       ELSE <<"Pool", "close">>
    /\ pc = "exited" => pool_calls # <<"Pool">>
\* A run with a pool was interrupted after it had handled a set and while
\* other sets were still to come, and the pool was terminated.
C21_Witness ==
    /\ LeftDispatch /\ Cancelled
    /\ jobs = 2
    /\ pool_calls = <<"Pool", "terminate">>
    /\ handled_track_sets # <<>>
    /\ Len(started) < Len(track_sets)

====
